---- MODULE Spec2Model ----
(***************************************************************************)
(* A model of the deployment class of src/index.ts: the manifest resolver  *)
(* (_loadConfig), the module registry (_loadConfigCache), the two-pass     *)
(* dependency verifier (_verifyDependencies) and the executor (run), with  *)
(* the runners' hooks as the environment.                                  *)
(*                                                                         *)
(* JavaScript values are modelled as follows.                              *)
(*   - a value of type string | string[] is a record that carries its own  *)
(*     tag: Str(c) for the string c, Arr(a) for the array a;               *)
(*   - a value of type string | LoadModule is Bare(n) or Load(n, of);      *)
(*   - an object whose fields are optional (a deployment entry, a module   *)
(*     declaration) is a function from the names of the fields it has;     *)
(*   - a Map is a function from its keys; a Set is a set;                  *)
(*   - a thrown AssertionError is a record [ok |-> FALSE, msg |-> m], m    *)
(*     the words of the message.                                           *)
(*                                                                         *)
(* The caller makes one call at a time: it awaits the promise of run       *)
(* before it calls addRunner or run again. require() always yields the     *)
(* artifact of the path it is given; a hook may return or throw.           *)
(***************************************************************************)
EXTENDS Integers, Sequences, FiniteSets, TLC

VARIABLES
    dirs,             \* the module root: the config.yml of each directory, in readdir order
    manifest,         \* the parsed deployment manifest, before resolution
    config,           \* this.config
    configCache,      \* this.configCache: name -> module declaration
    modulePathCache,  \* this.modulePathCache: name -> directory path
    runnerCache,      \* this.runnerCache: type -> runner
    pc,               \* where the instance is: "idle", or the hook run() awaits
    call,             \* the arguments of the run call in progress (or the last one)
    cur,              \* run()'s locals: the matched entry, its runner, the loop indices
    log,              \* the hook events of the run call in progress (or the last one)
    result,           \* how the last run call ended
    pre,              \* the caches as they were when that run call started
    called,           \* run has been called
    won,              \* a run call that matched an entry has completed successfully
    aggregated,       \* loadedCommands, as the verifier's first pass left it
    registered,       \* history: per type, the last addRunner since the registry was emptied
    op                \* history: the last method called, "new", "addRunner" or "run"

vars == <<dirs, manifest, config, configCache, modulePathCache, runnerCache,
          pc, call, cur, log, result, pre, called, won, aggregated, registered, op>>

----------------------------------------------------------------------------
(* Values *)

Str(c) == [isArray |-> FALSE, s |-> c]
Arr(a) == [isArray |-> TRUE, a |-> a]
Bare(n) == [isString |-> TRUE, s |-> n]
Load(n, of) == [isString |-> FALSE, name |-> n, of |-> of]

Range(f) == {f[x] : x \in DOMAIN f}

Ok == [ok |-> TRUE, msg |-> <<>>]
Thrown(m) == [ok |-> FALSE, msg |-> m]

\* The commands of the model; "Query" and "query" differ in case only.
Commands == {"Query", "query", "Mutation"}

\* String.prototype.toLowerCase on the commands of the model, and what it would be were
\* the command left as written.
toLowerCaseKeepsCase(c) == c

toLowerCase(c) ==
    CASE c = "Query" -> "query"
      [] c = "query" -> "query"
      [] c = "Mutation" -> "mutation"

\* path.join(a, b)
pathJoin(a, b) == <<a, b>>

----------------------------------------------------------------------------
(* Helpers of the class *)

\* function toArray, and what it would be were a string not wrapped.
toArrayDropsScalar(arr) == IF arr.isArray THEN arr.a ELSE <<>>

toArray(arr) == IF arr.isArray THEN arr.a ELSE <<arr.s>>

_moduleName(module) == IF module.isString THEN module.s ELSE module.name

_getLoadedCommand(deployment, module) ==
    IF module.isString THEN toArray(deployment.of) ELSE toArray(module.of)

----------------------------------------------------------------------------
(* The constructor: _loadConfig and _loadConfigCache *)

\* if (template): a missing field and the empty string are falsy.
HasTemplate(service) == "template" \in DOMAIN service /\ service.template # ""

\* { ...service, ...config.templates[template] }
Spread(service, tpl) ==
    [f \in DOMAIN service \cup DOMAIN tpl |->
        IF f \in DOMAIN tpl THEN tpl[f] ELSE service[f]]

\* The callback of config.deployment.map: the resolved entry, or the assertion that failed.
\* And what it would be without its two assertions: spreading undefined adds nothing.
ExpandTemplateUnchecked(m, service) ==
    IF HasTemplate(service) /\ "templates" \in DOMAIN m
                            /\ service.template \in DOMAIN m.templates
    THEN [ok |-> TRUE, msg |-> <<>>, entry |-> Spread(service, m.templates[service.template])]
    ELSE [ok |-> TRUE, msg |-> <<>>, entry |-> service]

ExpandTemplate(m, service) ==
    IF ~HasTemplate(service)
    THEN [ok |-> TRUE, msg |-> <<>>, entry |-> service]
    ELSE IF "templates" \notin DOMAIN m
    THEN [ok |-> FALSE, entry |-> service,
          msg |-> <<"No template defined, but found a referencing template", service.template>>]
    ELSE IF service.template \notin DOMAIN m.templates
    THEN [ok |-> FALSE, entry |-> service,
          msg |-> <<"Expected template", service.template, "to be defined on the templates.">>]
    ELSE [ok |-> TRUE, msg |-> <<>>, entry |-> Spread(service, m.templates[service.template])]

Min(S) == CHOOSE x \in S : \A y \in S : x <= y

\* _loadConfig: the value of this.config, or the first assertion that failed.
_loadConfig(m) ==
    LET rs == [i \in 1..Len(m.deployment) |-> ExpandTemplate(m, m.deployment[i])]
        bad == {i \in 1..Len(m.deployment) : ~rs[i].ok}
    IN  IF bad = {}
        THEN [ok |-> TRUE, msg |-> <<>>,
              config |-> [f \in DOMAIN m |->
                  IF f = "deployment"
                  THEN [i \in 1..Len(m.deployment) |-> rs[i].entry]
                  ELSE m[f]]]
        ELSE [ok |-> FALSE, msg |-> rs[Min(bad)].msg, config |-> m]

\* this.modulesPath
modulesPath == "modules"

\* Map.prototype.set, and what it would be were it to keep the value a key already has.
MapSetKeepsFirst(map, k, v) ==
    [x \in DOMAIN map \cup {k} |-> IF x \in DOMAIN map THEN map[x] ELSE v]

MapSet(map, k, v) == [x \in DOMAIN map \cup {k} |-> IF x = k THEN v ELSE map[x]]

\* The empty Map.
EmptyMap == <<>>

\* _loadConfigCache from directory i on, were it not to assert !hit: a later directory
\* takes the name over.
RECURSIVE ScanFromOverwrites(_, _, _, _)
ScanFromOverwrites(ds, i, cc, mp) ==
    IF i > Len(ds)
    THEN [ok |-> TRUE, msg |-> <<>>, configCache |-> cc, modulePathCache |-> mp]
    ELSE ScanFromOverwrites(ds, i + 1, MapSet(cc, ds[i].config.name, ds[i].config),
                            MapSet(mp, ds[i].config.name, pathJoin(modulesPath, ds[i].dir)))

\* _loadConfigCache from directory i on: both caches, or the conflict that stopped the scan.
RECURSIVE ScanFrom(_, _, _, _)
ScanFrom(ds, i, cc, mp) ==
    IF i > Len(ds)
    THEN [ok |-> TRUE, msg |-> <<>>, configCache |-> cc, modulePathCache |-> mp]
    ELSE LET modulePath == pathJoin(modulesPath, ds[i].dir)
             cfg == ds[i].config
         IN  IF cfg.name \in DOMAIN cc
             THEN [ok |-> FALSE, configCache |-> cc, modulePathCache |-> mp,
                   msg |-> <<"Module", cfg.name, "conflict, already found at", modulePath>>]
             ELSE ScanFrom(ds, i + 1, MapSet(cc, cfg.name, cfg),
                           MapSet(mp, cfg.name, modulePath))

_loadConfigCache(ds) == ScanFrom(ds, 1, EmptyMap, EmptyMap)

----------------------------------------------------------------------------
(* _verifyDependencies *)

\* The loop over dependentCommands, were it to assert `cached` alone.
CheckCommandsCachedOnly(loaded, dependency, cmds, c) ==
    IF c > Len(cmds) \/ _moduleName(Bare(dependency.name)) \in DOMAIN loaded
    THEN Ok
    ELSE Thrown(<<"Expected module", dependency.name, "command", cmds[c], "to be loaded.">>)

\* cached.add(command) for every command, on the Set of module `name` (a new Set at
\* first); and what it would be with a new Set every time.
AddCommandsOverwrite(loaded, name, cmds) ==
    [n \in DOMAIN loaded \cup {name} |-> IF n = name THEN Range(cmds) ELSE loaded[n]]

AddCommands(loaded, name, cmds) ==
    [n \in DOMAIN loaded \cup {name} |->
        (IF n \in DOMAIN loaded THEN loaded[n] ELSE {})
        \cup (IF n = name THEN Range(cmds) ELSE {})]

\* The inner loop of the first pass, from module j of the entry on.
RECURSIVE AggregateModules(_, _, _)
AggregateModules(loaded, deployment, j) ==
    IF j > Len(deployment.modules)
    THEN loaded
    ELSE AggregateModules(
             AddCommands(loaded, _moduleName(deployment.modules[j]),
                         _getLoadedCommand(deployment, deployment.modules[j])),
             deployment, j + 1)

\* The first pass, from entry i on.
RECURSIVE AggregateFrom(_, _, _)
AggregateFrom(loaded, deployments, i) ==
    IF i > Len(deployments)
    THEN loaded
    ELSE AggregateFrom(AggregateModules(loaded, deployments[i], 1), deployments, i + 1)

\* loadedCommands after the first pass.
loadedCommands(cfg) == AggregateFrom(EmptyMap, cfg.deployment, 1)

\* if (!config.dependencies || !config.dependencies.length) continue;
NoDependencies(decl) ==
    "dependencies" \notin DOMAIN decl \/ Len(decl.dependencies) = 0

\* The loop over dependentCommands, from command c on.
RECURSIVE CheckCommands(_, _, _, _)
CheckCommands(loaded, dependency, cmds, c) ==
    IF c > Len(cmds)
    THEN Ok
    ELSE IF   /\ _moduleName(Bare(dependency.name)) \in DOMAIN loaded
              /\ cmds[c] \in loaded[_moduleName(Bare(dependency.name))]
    THEN CheckCommands(loaded, dependency, cmds, c + 1)
    ELSE Thrown(<<"Expected module", dependency.name, "command", cmds[c], "to be loaded.">>)

\* The loop over config.dependencies, were it to go from the last dependency to the first.
RECURSIVE CheckDependenciesBackwards(_, _, _)
CheckDependenciesBackwards(loaded, deps, d) ==
    IF d > Len(deps)
    THEN Ok
    ELSE LET dep == deps[Len(deps) + 1 - d]
             r == CheckCommands(loaded, dep, toArray(dep.of), 1)
         IN  IF r.ok THEN CheckDependenciesBackwards(loaded, deps, d + 1) ELSE r

\* The loop over config.dependencies, from dependency d on.
RECURSIVE CheckDependencies(_, _, _)
CheckDependencies(loaded, deps, d) ==
    IF d > Len(deps)
    THEN Ok
    ELSE LET r == CheckCommands(loaded, deps[d], toArray(deps[d].of), 1)
         IN  IF r.ok THEN CheckDependencies(loaded, deps, d + 1) ELSE r

\* The inner loop of the second pass, were it to skip a module without declaration
\* instead of asserting it has one.
RECURSIVE CheckModulesSkipsUndeclared(_, _, _, _)
CheckModulesSkipsUndeclared(cc, loaded, deployment, j) ==
    IF j > Len(deployment.modules)
    THEN Ok
    ELSE LET name == _moduleName(deployment.modules[j])
             r == IF name \notin DOMAIN cc \/ NoDependencies(cc[name])
                  THEN Ok
                  ELSE CheckDependencies(loaded, cc[name].dependencies, 1)
         IN  IF r.ok THEN CheckModulesSkipsUndeclared(cc, loaded, deployment, j + 1) ELSE r

\* The inner loop of the second pass, from module j of the entry on.
RECURSIVE CheckModules(_, _, _, _)
CheckModules(cc, loaded, deployment, j) ==
    IF j > Len(deployment.modules)
    THEN Ok
    ELSE LET name == _moduleName(deployment.modules[j])
         IN  IF name \notin DOMAIN cc
             THEN Thrown(<<"AssertionError">>)
             ELSE LET r == IF NoDependencies(cc[name])
                           THEN Ok
                           ELSE CheckDependencies(loaded, cc[name].dependencies, 1)
                  IN  IF r.ok THEN CheckModules(cc, loaded, deployment, j + 1) ELSE r

\* The second pass, from entry i on.
RECURSIVE CheckFrom(_, _, _, _)
CheckFrom(cc, loaded, deployments, i) ==
    IF i > Len(deployments)
    THEN Ok
    ELSE LET r == CheckModules(cc, loaded, deployments[i], 1)
         IN  IF r.ok THEN CheckFrom(cc, loaded, deployments, i + 1) ELSE r

\* The second pass, were it to stop after the first entry.
CheckOnlyFirstEntry(cc, loaded, deployments) ==
    IF Len(deployments) = 0 THEN Ok ELSE CheckModules(cc, loaded, deployments[1], 1)

\* The second pass over the whole manifest.
CheckAll(cc, loaded, deployments) == CheckFrom(cc, loaded, deployments, 1)

\* _verifyDependencies: Ok, or the first assertion that failed. And what it would be
\* without the assertion on configCache.size.
_verifyDependenciesAnySize(cfg, cc) == CheckAll(cc, loadedCommands(cfg), cfg.deployment)

_verifyDependencies(cfg, cc) ==
    IF DOMAIN cc = {}
    THEN Thrown(<<"Expected that config cache has already been loaded.">>)
    ELSE CheckAll(cc, loadedCommands(cfg), cfg.deployment)

----------------------------------------------------------------------------
(* run and addRunner *)

\* The runners the callers may register: r1 and r2 have the same type.
Runners == {[id |-> "r1", type |-> "GraphQL"],
            [id |-> "r2", type |-> "GraphQL"],
            [id |-> "r3", type |-> "Rest"]}

\* A hook event: the hook, whether it was called, returned or threw, the runner,
\* and for onLoad the module required and the deployment entry passed.
Event(hook, ev, runner, module, deployment) ==
    [hook |-> hook, ev |-> ev, runner |-> runner, module |-> module,
     deployment |-> deployment]

Outcome(r, at) == [ok |-> r.ok, msg |-> r.msg, at |-> at]

\* The promise run returned is not settled yet.
Pending == [ok |-> FALSE, msg |-> <<>>, at |-> "pending"]

NoCur == [entry |-> 0, runner |-> "", i |-> 0, j |-> 0]

\* let toLoad = toArray(deployment.of); if (typeof module !== 'string') toLoad = ...;
\* and what it would be without the second statement.
toLoadIgnoresOverride(deployment, module) == toArray(deployment.of)

toLoad(deployment, module) ==
    IF module.isString THEN toArray(deployment.of) ELSE toArray(module.of)

\* The two for loops of run: the iteration that follows iteration (i, j), j = 0 being the
\* head of module i's loop; done when both loops are over. And what it would be were the
\* outer loop left after its first module.
NextLoadFirstModuleOnly(deployment, i, j) ==
    IF i = 1 /\ Len(deployment.modules) >= 1
            /\ j + 1 <= Len(toLoad(deployment, deployment.modules[1]))
    THEN [done |-> FALSE, i |-> 1, j |-> j + 1]
    ELSE [done |-> TRUE, i |-> i, j |-> 0]

RECURSIVE NextLoad(_, _, _)
NextLoad(deployment, i, j) ==
    IF i > Len(deployment.modules)
    THEN [done |-> TRUE, i |-> i, j |-> 0]
    ELSE IF j + 1 <= Len(toLoad(deployment, deployment.modules[i]))
    THEN [done |-> FALSE, i |-> i, j |-> j + 1]
    ELSE NextLoad(deployment, i + 1, 0)

\* run from the end of iteration (i, j) to its next await: the next onLoad is called, or
\* the assertion on the module's path fails, or the loops are over and run is called.
Resume(e, runner, i, j, lg) ==
    LET deployment == config.deployment[e]
        n == NextLoad(deployment, i, j)
    IN  IF n.done
        THEN /\ pc' = "run"
             /\ cur' = [entry |-> e, runner |-> runner, i |-> n.i, j |-> n.j]
             /\ log' = Append(lg, Event("run", "call", runner, <<>>, 0))
             /\ result' = Pending
             /\ UNCHANGED <<won, modulePathCache>>
        ELSE LET module == deployment.modules[n.i]
                 load == toLoad(deployment, module)[n.j]
             IN  IF _moduleName(module) \notin DOMAIN modulePathCache
                 THEN /\ pc' = "idle"
                      /\ cur' = NoCur
                      /\ log' = lg
                      /\ result' = Outcome(Thrown(<<"AssertionError">>), "path")
                      /\ UNCHANGED <<won, modulePathCache>>
                 ELSE /\ pc' = "onLoad"
                      /\ cur' = [entry |-> e, runner |-> runner, i |-> n.i, j |-> n.j]
                      /\ log' = Append(lg, Event("onLoad", "call", runner,
                                   pathJoin(modulePathCache[_moduleName(module)],
                                            toLowerCase(load)), e))
                      /\ result' = Pending
                      /\ UNCHANGED <<won, modulePathCache>>

\* if (verify) this._verifyDependencies(); and what it would be with the test never true.
VerifySkipped(verify) == Ok

VerifyIfAsked(verify) ==
    IF verify THEN _verifyDependencies(config, configCache) ELSE Ok

\* this.configCache.clear(), which a verification that throws does not get to: what
\* configCache holds then. And what it would hold were the cache cleared first.
ClearedFirst(v) == EmptyMap

ClearedUnlessThrown(v) == IF v.ok THEN EmptyMap ELSE configCache

\* The entries run's loop reaches with deployment.name === name: the first one returns.
\* And what it would be were the name not compared.
MatchingAnyName(name) == 1..Len(config.deployment)

Matching(name) == {e \in 1..Len(config.deployment) : config.deployment[e].name = name}

\* What Map.prototype.get returns for a type without runner.
NoRunner == ""

\* The entry run executes: its loop returns at the end of the first iteration whose
\* deployment.name === name. And what it would be were the loop to keep the last one.
LastMatch(name) == CHOOSE e \in Matching(name) : \A f \in Matching(name) : f <= e

FirstMatch(name) == Min(Matching(name))

\* const runner = this.runnerCache.get(deployment.type), NoRunner for undefined.
\* And what it would be were a runner of another type taken when the type has none.
GetRunnerOfAnyType(type) ==
    IF type \in DOMAIN runnerCache THEN runnerCache[type]
    ELSE IF DOMAIN runnerCache # {}
         THEN runnerCache[CHOOSE t \in DOMAIN runnerCache : TRUE]
         ELSE NoRunner

GetRunner(type) == IF type \in DOMAIN runnerCache THEN runnerCache[type] ELSE NoRunner

\* The history of the addRunner calls since the registry was last emptied: for each type,
\* the runner the last call of that type passed, and the different runner of that type
\* passed before it, if any.
Register(reg, runner) ==
    LET before == IF runner.type \in DOMAIN reg THEN reg[runner.type]
                  ELSE [last |-> NoRunner, prev |-> NoRunner]
    IN  [t \in DOMAIN reg \cup {runner.type} |->
            IF t # runner.type THEN reg[t]
            ELSE IF before.last = runner.id THEN before
            ELSE [last |-> runner.id, prev |-> before.last]]

\* addRunner(runner)
addRunner(runner) ==
    /\ pc = "idle"
    /\ runnerCache' = MapSet(runnerCache, runner.type, runner.id)
    /\ registered' = Register(registered, runner)
    /\ op' = "addRunner"
    /\ UNCHANGED <<dirs, manifest, config, configCache, modulePathCache,
                   pc, call, cur, log, result, pre, called, won, aggregated>>

\* run(name, verify), to its first await or to its end.
run(name, verify) ==
    /\ pc = "idle"
    /\ called' = TRUE
    /\ call' = [name |-> name, verify |-> verify]
    /\ pre' = [configCache |-> configCache, modulePathCache |-> modulePathCache,
               runnerCache |-> runnerCache, won |-> won, registered |-> registered]
    /\ op' = "run"
    /\ UNCHANGED <<dirs, manifest, config, aggregated>>
    /\ LET v == VerifyIfAsked(verify)
       IN  /\ configCache' = ClearedUnlessThrown(v)
           /\ IF ~v.ok
              THEN /\ result' = Outcome(v, "verify")
                   /\ pc' = "idle"
                   /\ cur' = NoCur
                   /\ log' = <<>>
                   /\ UNCHANGED <<modulePathCache, runnerCache, won, registered>>
              ELSE IF Matching(name) = {}
              THEN /\ result' = Outcome(Ok, "")
                   /\ pc' = "idle"
                   /\ cur' = NoCur
                   /\ log' = <<>>
                   /\ UNCHANGED <<modulePathCache, runnerCache, won, registered>>
              ELSE LET e == FirstMatch(name)
                       runner == GetRunner(config.deployment[e].type)
                   IN  IF runner = NoRunner
                       THEN /\ result' = Outcome(Thrown(<<"AssertionError">>), "runner")
                            /\ pc' = "idle"
                            /\ cur' = NoCur
                            /\ log' = <<>>
                            /\ UNCHANGED <<modulePathCache, runnerCache, won, registered>>
                       ELSE /\ runnerCache' = EmptyMap
                            /\ registered' = EmptyMap
                            /\ Resume(e, runner, 1, 0, <<>>)

\* The onLoad hook run awaits returns (its promise resolves): run goes on.
LoadReturn ==
    /\ pc = "onLoad"
    /\ Resume(cur.entry, cur.runner, cur.i, cur.j,
              Append(log, Event("onLoad", "return", cur.runner, <<>>, 0)))
    /\ UNCHANGED <<dirs, manifest, config, configCache, runnerCache, call, pre, called, aggregated, registered, op>>

\* The onLoad hook run awaits throws (its promise rejects): run rejects. First what it
\* would be with the path cache cleared on the way out.
LoadThrowClearsPaths ==
    /\ pc = "onLoad"
    /\ pc' = "idle"
    /\ cur' = NoCur
    /\ log' = Append(log, Event("onLoad", "throw", cur.runner, <<>>, 0))
    /\ result' = Outcome(Thrown(<<"hook">>), "onLoad")
    /\ modulePathCache' = EmptyMap
    /\ UNCHANGED <<dirs, manifest, config, configCache, runnerCache,
                   call, pre, called, won, aggregated, registered, op>>

LoadThrow ==
    /\ pc = "onLoad"
    /\ pc' = "idle"
    /\ cur' = NoCur
    /\ log' = Append(log, Event("onLoad", "throw", cur.runner, <<>>, 0))
    /\ result' = Outcome(Thrown(<<"hook">>), "onLoad")
    /\ UNCHANGED <<dirs, manifest, config, configCache, modulePathCache, runnerCache,
                   call, pre, called, won, aggregated, registered, op>>

\* The run hook returns: this.modulePathCache.clear(); return; First what it would be
\* without the clear.
RunReturnKeepsPaths ==
    /\ pc = "run"
    /\ pc' = "idle"
    /\ cur' = NoCur
    /\ log' = Append(log, Event("run", "return", cur.runner, <<>>, 0))
    /\ result' = Outcome(Ok, "")
    /\ won' = TRUE
    /\ UNCHANGED <<dirs, manifest, config, configCache, modulePathCache, runnerCache,
                   call, pre, called, aggregated, registered, op>>

RunReturn ==
    /\ pc = "run"
    /\ pc' = "idle"
    /\ cur' = NoCur
    /\ log' = Append(log, Event("run", "return", cur.runner, <<>>, 0))
    /\ modulePathCache' = EmptyMap
    /\ result' = Outcome(Ok, "")
    /\ won' = TRUE
    /\ UNCHANGED <<dirs, manifest, config, configCache, runnerCache, call, pre, called, aggregated, registered, op>>

\* The run hook throws: run rejects.
RunThrow ==
    /\ pc = "run"
    /\ pc' = "idle"
    /\ cur' = NoCur
    /\ log' = Append(log, Event("run", "throw", cur.runner, <<>>, 0))
    /\ result' = Outcome(Thrown(<<"hook">>), "run")
    /\ UNCHANGED <<dirs, manifest, config, configCache, modulePathCache, runnerCache,
                   call, pre, called, won, aggregated, registered, op>>

----------------------------------------------------------------------------
(* The instances of the model: what the constructor is given *)

\* The most deployment entries a manifest of the model has.
MaxEntries == 2

AccountDecl == [version |-> 1, name |-> "Account"]

MemberDecl ==
    [version |-> 1, name |-> "Member",
     dependencies |-> <<[name |-> "Account", of |-> Str("Query")]>>]

Dir(d, decl) == [dir |-> d, config |-> decl]

\* Module roots: Account and Member (which depends on Account's Query) declared, or
\* Account alone.
RunDirs == {<<Dir("account", AccountDecl), Dir("member", MemberDecl)>>,
            <<Dir("account", AccountDecl)>>}

Entry(type, name, of, modules) ==
    [type |-> type, name |-> name, of |-> of, modules |-> modules]

\* The entries of the manifests run is called on: two types under the name BE, entries
\* that load nothing, module-level overrides, commands that differ in case only.
RunEntries ==
    {Entry("GraphQL", "BE", Str("Query"),
           <<Bare("Account"), Load("Member", Arr(<<"Mutation", "Query">>))>>),
     Entry("Rest", "BE", Arr(<<"Mutation", "query">>), <<Bare("Member"), Bare("Account")>>),
     Entry("GraphQL", "FE", Str("Query"), <<Bare("Account")>>),
     Entry("Rest", "FE", Str("Query"), <<>>),
     Entry("GraphQL", "BE", Str("Mutation"), <<Load("Member", Str("Query"))>>)}

SeqsUpTo(S, n) == UNION {[1..k -> S] : k \in 0..n}

\* Manifests without templates, and one whose only entry takes its modules from a template.
RunManifests ==
    {[version |-> 1, deployment |-> ds] : ds \in SeqsUpTo(RunEntries, MaxEntries) \ {<<>>}}
    \cup {[version |-> 1,
           templates |-> [Wallet |-> [modules |-> <<Bare("Account")>>]],
           deployment |-> <<[type |-> "GraphQL", name |-> "BE", of |-> Str("Query"),
                             template |-> "Wallet"]>>]}

\* The names a caller passes to run: each is the name of no entry in some manifests.
RunNames == {"BE", "FE"}

NoCall == [name |-> "", verify |-> FALSE]
NoPre == [configCache |-> EmptyMap, modulePathCache |-> EmptyMap,
          runnerCache |-> EmptyMap, won |-> FALSE, registered |-> EmptyMap]

\* What a new instance has not done yet.
Fresh ==
    /\ runnerCache = EmptyMap
    /\ pc = "idle"
    /\ call = NoCall
    /\ cur = NoCur
    /\ log = <<>>
    /\ result = Outcome(Ok, "")
    /\ pre = NoPre
    /\ called = FALSE
    /\ won = FALSE
    /\ aggregated = EmptyMap
    /\ registered = EmptyMap
    /\ op = "new"

\* The instance after new Deployment(modulesPath, configPath), for the inputs on which
\* the constructor does not throw.
Init ==
    /\ dirs \in RunDirs
    /\ manifest \in RunManifests
    /\ _loadConfig(manifest).ok
    /\ _loadConfigCache(dirs).ok
    /\ config = _loadConfig(manifest).config
    /\ configCache = _loadConfigCache(dirs).configCache
    /\ modulePathCache = _loadConfigCache(dirs).modulePathCache
    /\ Fresh

Next ==
    \/ \E runner \in Runners : addRunner(runner)
    \/ \E name \in RunNames, verify \in BOOLEAN : run(name, verify)
    \/ LoadReturn
    \/ LoadThrow
    \/ RunReturn
    \/ RunThrow

Spec == Init /\ [][Next]_vars

----------------------------------------------------------------------------
(* The verifier and the loops of run as functions of the manifest and the registry *)

\* The modules run requires for entry e when every hook returns: the iterations of its
\* two loops from the one after (i, j) on, up to a module that has no path.
RECURSIVE LoadSequenceFrom(_, _, _, _)
LoadSequenceFrom(deployment, paths, i, j) ==
    LET n == NextLoad(deployment, i, j)
    IN  IF n.done
        THEN <<>>
        ELSE LET module == deployment.modules[n.i]
             IN  IF _moduleName(module) \notin DOMAIN paths
                 THEN <<>>
                 ELSE <<pathJoin(paths[_moduleName(module)],
                                 toLowerCase(toLoad(deployment, module)[n.j]))>>
                      \o LoadSequenceFrom(deployment, paths, n.i, n.j)

LoadSequence(deployment, paths) == LoadSequenceFrom(deployment, paths, 1, 0)

\* Declarations of Account: none, or one without dependencies, with an empty list, or
\* with a dependency on Member.
AccountDecls ==
    {<<>>,
     <<Dir("account", AccountDecl)>>,
     <<Dir("account", [version |-> 1, name |-> "Account", dependencies |-> <<>>])>>,
     <<Dir("account", [version |-> 1, name |-> "Account",
                       dependencies |-> <<[name |-> "Member", of |-> Str("Mutation")]>>])>>}

MemberDeps ==
    {<<[name |-> "Account", of |-> Str("Query")]>>,
     <<[name |-> "Account", of |-> Arr(<<"Query", "Mutation">>)]>>,
     <<[name |-> "Account", of |-> Str("query")],
       [name |-> "Member", of |-> Arr(<<"Mutation">>)]>>}

MemberDecls ==
    {<<>>} \cup
    {<<Dir("member", [version |-> 1, name |-> "Member", dependencies |-> deps])>> :
        deps \in MemberDeps}

VerifyDirs == {a \o m : a \in AccountDecls, m \in MemberDecls}

VerifyOfs == {Str("Query"), Arr(<<"Mutation", "query", "Query">>), Arr(<<>>)}

VerifyModules ==
    {<<>>,
     <<Bare("Account")>>,
     <<Bare("Member")>>,
     <<Bare("Account"), Load("Member", Str("Mutation"))>>,
     <<Load("Account", Arr(<<"Query", "Mutation">>)), Bare("Member")>>}

VerifyEntries == {Entry("GraphQL", "BE", of, ms) : of \in VerifyOfs, ms \in VerifyModules}

VerifyManifests ==
    {[version |-> 1, deployment |-> ds] : ds \in SeqsUpTo(VerifyEntries, MaxEntries)}

InitVerify ==
    /\ dirs \in VerifyDirs
    /\ manifest \in VerifyManifests
    /\ _loadConfig(manifest).ok
    /\ _loadConfigCache(dirs).ok
    /\ config = _loadConfig(manifest).config
    /\ configCache = _loadConfigCache(dirs).configCache
    /\ modulePathCache = _loadConfigCache(dirs).modulePathCache
    /\ Fresh

\* this._verifyDependencies() on the instance as constructed.
verifyDependencies ==
    /\ result.at = ""
    /\ result' = Outcome(_verifyDependencies(config, configCache), "verify")
    /\ aggregated' = IF DOMAIN configCache = {} THEN EmptyMap ELSE loadedCommands(config)
    /\ UNCHANGED <<dirs, manifest, config, configCache, modulePathCache, runnerCache,
                   pc, call, cur, log, pre, called, won, registered, op>>

\* The loops of run over entry e, every hook returning.
loadEntry(e) ==
    /\ result.at = "verify"
    /\ cur = NoCur
    /\ cur' = [NoCur EXCEPT !.entry = e]
    /\ log' = LoadSequence(config.deployment[e], modulePathCache)
    /\ UNCHANGED <<dirs, manifest, config, configCache, modulePathCache, runnerCache,
                   pc, call, result, pre, called, won, aggregated, registered, op>>

NextVerify ==
    \/ verifyDependencies
    \/ \E e \in DOMAIN config.deployment : loadEntry(e)

SpecVerify == InitVerify /\ [][NextVerify]_vars

----------------------------------------------------------------------------
(* The resolver as a function of the manifest *)

\* this.config before _loadConfig has assigned it.
Null == [deployment |-> <<>>]

Opt(field, values) == {<<>>} \cup {field :> v : v \in values}

\* Entries whose `of` and `modules` may be missing; the template named, if any,
\* is Wallet, one that is nowhere defined, or the empty string.
ResolveEntries ==
    {("name" :> "BE") @@ ("type" :> "Rest") @@ o @@ m @@ tp :
        o \in Opt("of", {Str("Query")}),
        m \in Opt("modules", {<<Bare("Member")>>}),
        tp \in Opt("template", {"", "Wallet", "Missing"})}

Templates ==
    {t @@ o @@ m :
        t \in Opt("type", {"GraphQL"}),
        o \in Opt("of", {Arr(<<"Mutation">>)}),
        m \in Opt("modules", {<<Bare("Account")>>})}

ResolveManifests ==
    {("version" :> 1) @@ ("deployment" :> ds) @@ tt :
        ds \in SeqsUpTo(ResolveEntries, MaxEntries),
        tt \in {<<>>} \cup {"templates" :> <<>>}
               \cup {"templates" :> ("Wallet" :> tpl) : tpl \in Templates}}

InitResolve ==
    /\ dirs = <<>>
    /\ manifest \in ResolveManifests
    /\ config = Null
    /\ configCache = EmptyMap
    /\ modulePathCache = EmptyMap
    /\ Fresh

\* this._loadConfig() in the constructor.
loadConfig ==
    /\ result.at = ""
    /\ result' = Outcome(_loadConfig(manifest), "resolve")
    /\ config' = IF _loadConfig(manifest).ok THEN _loadConfig(manifest).config ELSE Null
    /\ UNCHANGED <<dirs, manifest, configCache, modulePathCache, runnerCache,
                   pc, call, cur, log, pre, called, won, aggregated, registered, op>>

NextResolve == loadConfig

SpecResolve == InitResolve /\ [][NextResolve]_vars

----------------------------------------------------------------------------
(* The registry scan as a function of the module root *)

\* The most directories a module root of the model has.
MaxDirs == 3

\* The names readdirSync returns, all different, in its order.
DirNames == <<"account", "ledger", "member", "report", "wallet">>

\* The config.yml files: two of them declare the name Account.
ScanDecls ==
    {AccountDecl,
     MemberDecl,
     [version |-> 1, name |-> "Account",
      dependencies |-> <<[name |-> "Member", of |-> Str("Mutation")]>>],
     [version |-> 1, name |-> "Wallet"]}

ScanDirs ==
    {[i \in DOMAIN decls |-> Dir(DirNames[i], decls[i])] :
        decls \in SeqsUpTo(ScanDecls, MaxDirs)}

\* The instance when the constructor calls _loadConfigCache.
InitScan ==
    /\ dirs \in ScanDirs
    /\ manifest = [version |-> 1, deployment |-> <<>>]
    /\ config = manifest
    /\ configCache = EmptyMap
    /\ modulePathCache = EmptyMap
    /\ Fresh

\* this._loadConfigCache() in the constructor: a failed assertion leaves the caches as
\* the directories before it filled them.
loadConfigCache ==
    /\ result.at = ""
    /\ result' = Outcome(_loadConfigCache(dirs), "scan")
    /\ configCache' = _loadConfigCache(dirs).configCache
    /\ modulePathCache' = _loadConfigCache(dirs).modulePathCache
    /\ UNCHANGED <<dirs, manifest, config, runnerCache,
                   pc, call, cur, log, pre, called, won, aggregated, registered, op>>

NextScan == loadConfigCache

SpecScan == InitScan /\ [][NextScan]_vars

----------------------------------------------------------------------------
(* What the claims speak of, stated on the manifest and the registry themselves *)

\* The commands an `of` names.
CommandsOf(of) == IF of.isArray THEN {of.a[k] : k \in DOMAIN of.a} ELSE {of.s}

\* The commands an `of` names, in order.
CommandListOf(of) == IF of.isArray THEN of.a ELSE <<of.s>>

RefName(m) == IF m.isString THEN m.s ELSE m.name

\* The `of` that governs module reference m of entry d.
RefOf(d, m) == IF m.isString THEN d.of ELSE m.of

\* The module names the entries of a manifest reference.
Referenced(cfg) ==
    UNION {{RefName(cfg.deployment[e].modules[j]) : j \in DOMAIN cfg.deployment[e].modules} :
              e \in DOMAIN cfg.deployment}

\* The commands some entry of the manifest loads of module X.
Contributed(cfg, X) ==
    UNION {UNION {IF RefName(cfg.deployment[e].modules[j]) = X
                  THEN CommandsOf(RefOf(cfg.deployment[e], cfg.deployment[e].modules[j]))
                  ELSE {} : j \in DOMAIN cfg.deployment[e].modules} :
              e \in DOMAIN cfg.deployment}

\* Every command of every dependency of every referenced, declared module is contributed.
DependenciesMet(cfg, cc) ==
    \A X \in Referenced(cfg) \cap DOMAIN cc :
        "dependencies" \in DOMAIN cc[X] =>
            \A d \in DOMAIN cc[X].dependencies :
                CommandsOf(cc[X].dependencies[d].of)
                    \subseteq Contributed(cfg, cc[X].dependencies[d].name)

\* What lets a manifest through verification against the declarations cc.
Verifiable(cfg, cc) ==
    /\ DOMAIN cc # {}
    /\ Referenced(cfg) \subseteq DOMAIN cc
    /\ DependenciesMet(cfg, cc)

NoEntryNamed(name) == \A e \in DOMAIN config.deployment : config.deployment[e].name # name

\* The first entry of the manifest with that name.
FirstNamed(name) ==
    CHOOSE e \in DOMAIN config.deployment :
        /\ config.deployment[e].name = name
        /\ \A x \in 1..(e - 1) : config.deployment[x].name # name

\* The (module, command) pairs of entry d from module i on: module order, then the order
\* of the module's command list.
RECURSIVE PairsFrom(_, _)
PairsFrom(d, i) ==
    IF i > Len(d.modules)
    THEN <<>>
    ELSE [k \in 1..Len(CommandListOf(RefOf(d, d.modules[i]))) |->
             <<RefName(d.modules[i]), CommandListOf(RefOf(d, d.modules[i]))[k]>>]
         \o PairsFrom(d, i + 1)

Pairs(d) == PairsFrom(d, 1)

IsEv(x, hook, ev) == x.hook = hook /\ x.ev = ev
IsLoadCall(x) == IsEv(x, "onLoad", "call")
IsLoadReturn(x) == IsEv(x, "onLoad", "return")
IsRunCall(x) == IsEv(x, "run", "call")

LoadCalls == SelectSeq(log, IsLoadCall)
LoadReturns == SelectSeq(log, IsLoadReturn)
RunCalls == SelectSeq(log, IsRunCall)

\* The last run call is over (its promise is settled).
CallDone == called /\ pc = "idle"

\* The last run call failed in verification.
VerifyFailed == called /\ pc = "idle" /\ ~result.ok /\ result.at = "verify"

\* The last run call matched an entry whose type had a runner, and got past verification.
Started ==
    /\ called
    /\ ~VerifyFailed
    /\ ~NoEntryNamed(call.name)
    /\ config.deployment[FirstNamed(call.name)].type \in DOMAIN pre.runnerCache

\* The last hook called in the last run call threw.
HookThrew == called /\ log # <<>> /\ log[Len(log)].ev = "throw"

----------------------------------------------------------------------------
(* The claims about run *)

\* C1: in run(name, true) a hook is invoked only when the verification of the whole
\* manifest (every entry, every referenced module, every dependency) has succeeded; when
\* it has not, run fails in verification and no hook of any runner has been invoked.
C1_VerifyBeforeHooks ==
    (called /\ call.verify) =>
        /\ log # <<>> => Verifiable(config, pre.configCache)
        /\ ~Verifiable(config, pre.configCache) => VerifyFailed /\ log = <<>>

\* A verification that failed on a call whose entry had a runner and something to load.
C1_Witness ==
    /\ VerifyFailed
    /\ call.verify
    /\ ~NoEntryNamed(call.name)
    /\ config.deployment[FirstNamed(call.name)].type \in DOMAIN pre.runnerCache
    /\ Pairs(config.deployment[FirstNamed(call.name)]) # <<>>
    /\ log = <<>>

\* C2: the onLoad calls of a run are, in order, the (module, command) pairs of the matched
\* entry (module order, then the order of the override's `of` or else of the entry's `of`),
\* once each, on the runner of the entry's type, each with the module's path joined with
\* the lowercase command and with the entry; and each onLoad call has returned before the
\* next hook is called.
C2_LoadOrder ==
    Started =>
        LET e == FirstNamed(call.name)
            want == Pairs(config.deployment[e])
        IN  /\ Len(LoadCalls) <= Len(want)
            /\ \A k \in 1..Len(LoadCalls) :
                  /\ LoadCalls[k].module
                        = <<pre.modulePathCache[want[k][1]], toLowerCase(want[k][2])>>
                  /\ LoadCalls[k].deployment = e
                  /\ LoadCalls[k].runner = pre.runnerCache[config.deployment[e].type]
            /\ \A k \in 1..Len(log) :
                  IsLoadCall(log[k]) =>
                      /\ k > 1 => IsLoadReturn(log[k - 1])
                      /\ k < Len(log) => log[k + 1].hook = "onLoad" /\ log[k + 1].ev # "call"
                      /\ k = Len(log) => pc = "onLoad"
            /\ (CallDone /\ result.ok) => Len(LoadCalls) = Len(want)

\* A run that completed after loading an override's two commands and a bare module.
C2_Witness ==
    /\ Started
    /\ CallDone
    /\ result.ok
    /\ Len(LoadCalls) >= 3
    /\ \E j \in DOMAIN config.deployment[FirstNamed(call.name)].modules :
          ~config.deployment[FirstNamed(call.name)].modules[j].isString

\* C3: the run hook is called at most once, on the entry's runner, only when every onLoad
\* of the entry has returned, and no onLoad is called after it; once all have returned it
\* has been called; and run returns successfully only after the run hook has returned.
C3_RunHookOnce ==
    Started =>
        LET e == FirstNamed(call.name)
            want == Pairs(config.deployment[e])
        IN  /\ Len(RunCalls) <= 1
            /\ \A k \in 1..Len(log) :
                  IsRunCall(log[k]) =>
                      /\ Len(SelectSeq(SubSeq(log, 1, k - 1), IsLoadReturn)) = Len(want)
                      /\ \A x \in (k + 1)..Len(log) : log[x].hook = "run"
                      /\ log[k].runner = pre.runnerCache[config.deployment[e].type]
            /\ Len(LoadReturns) = Len(want) => Len(RunCalls) = 1
            /\ (CallDone /\ result.ok) =>
                  /\ Len(RunCalls) = 1
                  /\ IsEv(log[Len(log)], "run", "return")
            /\ pc = "run" <=> (Len(RunCalls) = 1 /\ IsRunCall(log[Len(log)]))

\* A run that returned after two modules' loads and the run hook.
C3_Witness ==
    /\ Started
    /\ CallDone
    /\ result.ok
    /\ Len(config.deployment[FirstNamed(call.name)].modules) >= 2
    /\ Len(LoadReturns) >= 2
    /\ Len(RunCalls) = 1

\* C6, as claimed: every run call made after a successful run of an entry fails.
C6_Original == (CallDone /\ pre.won) => ~result.ok

\* C6, amended: after a successful run of an entry no run call invokes a load hook again;
\* a call with verify = true fails in verification; a call completes without error only
\* with verify = false and either a name of no entry, or an entry that has nothing to load
\* and whose type has had a runner registered again.
C6_AfterSuccess ==
    (called /\ pre.won) =>
        /\ LoadCalls = <<>>
        /\ call.verify => VerifyFailed
        /\ (CallDone /\ result.ok) =>
              /\ ~call.verify
              /\ \/ NoEntryNamed(call.name)
                 \/ /\ config.deployment[FirstNamed(call.name)].type \in DOMAIN pre.runnerCache
                    /\ Pairs(config.deployment[FirstNamed(call.name)]) = <<>>

\* After a success, a call on an entry with a runner registered again and something to
\* load fails on the module's path.
C6_Witness ==
    /\ CallDone
    /\ pre.won
    /\ ~result.ok
    /\ result.at = "path"
    /\ pre.runnerCache # EmptyMap

HookThrows == pc # "idle" /\ log' # <<>> /\ log'[Len(log')].ev = "throw"

----------------------------------------------------------------------------
(* The claims about the verifier and the resolver *)

\* _verifyDependencies has run on the instance as constructed.
Verified == result.at = "verify"

\* It has just run.
JustVerified == Verified /\ cur = NoCur

\* C4, as claimed: verification succeeds iff every command of every dependency of every
\* module the manifest references is among the commands the manifest's entries load of
\* the dependency's module.
C4_Original == JustVerified => (result.ok <=> DependenciesMet(config, configCache))

\* C4, amended: verification succeeds iff the declaration cache is not empty, every
\* module the manifest references has a declaration, and every command of every
\* dependency of those modules is among the commands some entry of the manifest loads of
\* the dependency's module.
C4_VerifyIff == JustVerified => (result.ok <=> Verifiable(config, configCache))

\* A verification that succeeds on a dependency met by another entry than the one that
\* references the dependent module.
C4_Witness ==
    /\ Verified
    /\ result.ok
    /\ \E e \in DOMAIN config.deployment :
          \E j \in DOMAIN config.deployment[e].modules :
              LET X == RefName(config.deployment[e].modules[j])
              IN  /\ "dependencies" \in DOMAIN configCache[X]
                  /\ \E d \in DOMAIN configCache[X].dependencies :
                        LET dep == configCache[X].dependencies[d]
                        IN  /\ CommandsOf(dep.of) # {}
                            /\ ~(CommandsOf(dep.of) \subseteq
                                   Contributed([deployment |-> <<config.deployment[e]>>],
                                               dep.name))

\* C5, as claimed: a field an entry with a template sets keeps the entry's value in the
\* resolved entry.
C5_EntryOverridesTemplate ==
    (result.at = "resolve" /\ result.ok) =>
        \A i \in DOMAIN manifest.deployment :
            HasTemplate(manifest.deployment[i]) =>
                \A f \in DOMAIN manifest.deployment[i] :
                    config.deployment[i][f] = manifest.deployment[i][f]

Permuted(cfg, p) ==
    [cfg EXCEPT !.deployment = [i \in DOMAIN cfg.deployment |-> cfg.deployment[p[i]]]]

\* C9: whatever the order of the manifest's entries, the first pass of the verifier
\* leaves the same set of commands for every module.
C9_AggregationCommutes ==
    (JustVerified /\ DOMAIN configCache # {}) =>
        \A p \in Permutations(DOMAIN config.deployment) :
            loadedCommands(Permuted(config, p)) = aggregated

\* Two entries give one module different commands, and the aggregate has them all.
C9_Witness ==
    /\ Verified
    /\ DOMAIN configCache # {}
    /\ Len(config.deployment) >= 2
    /\ \E X \in DOMAIN aggregated :
          LET a == Contributed([deployment |-> <<config.deployment[1]>>], X)
              b == Contributed([deployment |-> <<config.deployment[2]>>], X)
          IN  /\ ~(a \subseteq b) /\ ~(b \subseteq a)
              /\ a \cup b \subseteq aggregated[X]

\* `of` with the string c replaced by the array [c].
AsArray(of) == IF of.isArray THEN of ELSE Arr(<<of.s>>)

RefAsArray(m) == IF m.isString THEN m ELSE Load(m.name, AsArray(m.of))

EntryAsArrays(d) ==
    [d EXCEPT !.of = AsArray(d.of),
              !.modules = [j \in DOMAIN d.modules |-> RefAsArray(d.modules[j])]]

ConfigAsArrays(cfg) ==
    [cfg EXCEPT !.deployment = [e \in DOMAIN cfg.deployment |->
                                   EntryAsArrays(cfg.deployment[e])]]

DeclAsArrays(decl) ==
    IF "dependencies" \notin DOMAIN decl
    THEN decl
    ELSE [decl EXCEPT !.dependencies =
             [d \in DOMAIN decl.dependencies |->
                 [decl.dependencies[d] EXCEPT !.of = AsArray(decl.dependencies[d].of)]]]

CacheAsArrays(cc) == [X \in DOMAIN cc |-> DeclAsArrays(cc[X])]

\* C10: with every `of` that is a string c (of an entry, of a module reference, of a
\* dependency) written as the array [c], the first pass leaves the same commands, the
\* verification ends the same way and run requires the same modules in the same order.
C10_ScalarAsArray ==
    /\ JustVerified =>
          /\ DOMAIN configCache # {} => aggregated = loadedCommands(ConfigAsArrays(config))
          /\ result = Outcome(_verifyDependencies(ConfigAsArrays(config),
                                                  CacheAsArrays(configCache)), "verify")
    /\ (Verified /\ cur.entry # 0) =>
          log = LoadSequence(EntryAsArrays(config.deployment[cur.entry]), modulePathCache)

\* An entry, a module reference and a dependency each with a string `of`, verified, and
\* the entry's modules required.
C10_Witness ==
    /\ Verified
    /\ cur.entry # 0
    /\ log # <<>>
    /\ ~config.deployment[cur.entry].of.isArray
    /\ \E j \in DOMAIN config.deployment[cur.entry].modules :
          LET m == config.deployment[cur.entry].modules[j]
          IN  (~m.isString) /\ ~m.of.isArray
    /\ \E X \in DOMAIN configCache :
          /\ "dependencies" \in DOMAIN configCache[X]
          /\ \E d \in DOMAIN configCache[X].dependencies :
                ~configCache[X].dependencies[d].of.isArray

----------------------------------------------------------------------------
(* The claims about the runner registry *)

\* The type of the entry the last run call matched.
CallType == config.deployment[FirstNamed(call.name)].type

\* C11: the registry binds each type to one runner, the one the last addRunner of that
\* type passed; every hook a run call invokes is a hook of the runner last registered
\* with the matched entry's type when run was called, never one of a runner a later
\* addRunner of that type replaced.
C11_LastRegisteredRunner ==
    /\ DOMAIN runnerCache = DOMAIN registered
    /\ \A t \in DOMAIN runnerCache : runnerCache[t] = registered[t].last
    /\ called =>
          \A k \in 1..Len(log) :
              /\ CallType \in DOMAIN pre.registered
              /\ log[k].runner = pre.registered[CallType].last
              /\ log[k].runner # pre.registered[CallType].prev

\* A run that completed on the second runner registered with its entry's type, a runner of
\* another type being registered as well.
C11_Witness ==
    /\ Started
    /\ CallDone
    /\ result.ok
    /\ RunCalls # <<>>
    /\ pre.registered[CallType].prev # NoRunner
    /\ DOMAIN pre.registered = {"GraphQL", "Rest"}

\* C12: a run call that gets to an entry whose type has no runner registered fails at the
\* runner lookup, and no hook has been invoked.
C12_NoRunnerFails ==
    (called /\ ~VerifyFailed /\ ~NoEntryNamed(call.name)
            /\ CallType \notin DOMAIN pre.registered) =>
        /\ CallDone
        /\ ~result.ok
        /\ result.at = "runner"
        /\ result.msg = <<"AssertionError">>
        /\ log = <<>>

\* Such a call on an instance that has a runner of another type and an entry with modules
\* to load.
C12_Witness ==
    /\ called
    /\ ~VerifyFailed
    /\ ~NoEntryNamed(call.name)
    /\ CallType \notin DOMAIN pre.registered
    /\ pre.registered # EmptyMap
    /\ Pairs(config.deployment[FirstNamed(call.name)]) # <<>>
    /\ result.at = "runner"

----------------------------------------------------------------------------
(* The claims about the constructor *)

\* The entry names a template: it has a `template` field that is not empty.
NamesTemplate(service) == "template" \in DOMAIN service /\ service.template # ""

\* The manifest has a template table and t is one of its entries.
TemplateDefined(m, t) == "templates" \in DOMAIN m /\ t \in DOMAIN m.templates

\* The entries whose template is missing.
Dangling(m) ==
    {i \in DOMAIN m.deployment :
        /\ NamesTemplate(m.deployment[i])
        /\ ~TemplateDefined(m, m.deployment[i].template)}

Scanned == result.at = "scan"

\* The directories whose config.yml declares a name that a directory before them declares.
Repeats(ds) ==
    {j \in DOMAIN ds : \E i \in DOMAIN ds : i < j /\ ds[i].config.name = ds[j].config.name}

\* C14: the scan of the module root fails exactly when two directories declare the same
\* name, with the conflict assertion naming that name; when it succeeds the declaration
\* cache and the path cache have the same keys, the declared names, each bound to the
\* declaration and to the path of the one directory that declares it.
C14_ConflictIff ==
    Scanned =>
        /\ ~result.ok <=>
              \E i, j \in DOMAIN dirs : i # j /\ dirs[i].config.name = dirs[j].config.name
        /\ ~result.ok =>
              LET j == CHOOSE x \in Repeats(dirs) : \A y \in Repeats(dirs) : x <= y
              IN  /\ result.msg[1] = "Module"
                  /\ result.msg[2] = dirs[j].config.name
                  /\ result.msg[3] = "conflict, already found at"
        /\ result.ok =>
              /\ DOMAIN configCache = {dirs[i].config.name : i \in DOMAIN dirs}
              /\ DOMAIN modulePathCache = DOMAIN configCache
              /\ \A i \in DOMAIN dirs :
                    /\ configCache[dirs[i].config.name] = dirs[i].config
                    /\ modulePathCache[dirs[i].config.name] = <<"modules", dirs[i].dir>>

\* A scan that fails on its third directory, which declares the name of the first with
\* another declaration.
C14_Witness ==
    /\ Scanned
    /\ ~result.ok
    /\ Len(dirs) = 3
    /\ dirs[1].config.name # dirs[2].config.name
    /\ dirs[3].config.name = dirs[1].config.name
    /\ dirs[3].config # dirs[1].config

----------------------------------------------------------------------------
(* The claims about the order and the case of commands *)

\* The places <<entry, module, dependency, command>> of the verifier's traversal at which
\* a command of a dependency of a declared module is loaded by no entry.
Misses ==
    {p \in UNION {UNION {UNION {{<<e, j, d, c>> :
                    c \in DOMAIN CommandListOf(
                            configCache[RefName(config.deployment[e].modules[j])]
                                .dependencies[d].of)} :
                d \in IF "dependencies"
                          \in DOMAIN configCache[RefName(config.deployment[e].modules[j])]
                      THEN DOMAIN configCache[RefName(config.deployment[e].modules[j])]
                                      .dependencies
                      ELSE {}} :
            j \in {x \in DOMAIN config.deployment[e].modules :
                      RefName(config.deployment[e].modules[x]) \in DOMAIN configCache}} :
        e \in DOMAIN config.deployment} :
        LET dep == configCache[RefName(config.deployment[p[1]].modules[p[2]])]
                       .dependencies[p[3]]
        IN  CommandListOf(dep.of)[p[4]] \notin Contributed(config, dep.name)}

\* The places <<entry, module>> at which a module without declaration is referenced.
Undeclared ==
    UNION {{<<e, j>> : j \in {x \in DOMAIN config.deployment[e].modules :
                                RefName(config.deployment[e].modules[x])
                                    \notin DOMAIN configCache}} :
              e \in DOMAIN config.deployment}

\* Place p comes before place q in the traversal (p and q of the same length).
RECURSIVE Before(_, _)
Before(p, q) ==
    /\ p # <<>>
    /\ \/ p[1] < q[1]
       \/ p[1] = q[1] /\ Before(Tail(p), Tail(q))

FirstMiss == CHOOSE p \in Misses : \A q \in Misses : p = q \/ Before(p, q)

\* The module whose dependency is not met at place p, the dependency, and the command.
Dependent(p) == RefName(config.deployment[p[1]].modules[p[2]])
DependencyAt(p) == configCache[Dependent(p)].dependencies[p[3]]
MissingAt(p) == CommandListOf(DependencyAt(p).of)[p[4]]

\* The verifier gets to a missing command: there is one, and no reference before it in
\* the traversal is to a module without declaration.
ReachesMiss ==
    /\ DOMAIN configCache # {}
    /\ Misses # {}
    /\ \A u \in Undeclared : Before(<<FirstMiss[1], FirstMiss[2]>>, u)

\* Verification failed on a missing command.
FailedOnMiss == ~result.ok /\ result.msg # <<>> /\ result.msg[1] = "Expected module"

SameButCase(a, b) == a = b \/ {a, b} = {"Query", "query"}

\* C16: aggregation keeps the commands as written and verification compares them as
\* written: a dependency on a command that no entry loads character for character fails
\* verification, whatever entries load of the same letters in another case; at load time
\* the command is lowercased, so two commands of a module that differ in case only
\* resolve to the same path and lowercase command.
C16_CaseSensitivity ==
    /\ (JustVerified /\ DOMAIN configCache # {}) =>
          /\ \A X \in DOMAIN aggregated : aggregated[X] = Contributed(config, X)
          /\ Misses # {} => ~result.ok
    /\ (Verified /\ cur.entry # 0) =>
          LET want == Pairs(config.deployment[cur.entry])
          IN  /\ Len(log) <= Len(want)
              /\ \A k \in DOMAIN log : log[k][2] \in {"query", "mutation"}
              /\ \A k1, k2 \in DOMAIN log :
                    (want[k1][1] = want[k2][1] /\ SameButCase(want[k1][2], want[k2][2]))
                        => log[k1] = log[k2]

\* A dependency on "query" that fails verification while an entry loads "Query" of the
\* dependency's module, and an entry whose "query" and "Query" of one module were required
\* as the same artifact.
C16_Witness ==
    /\ Verified
    /\ cur.entry # 0
    /\ FailedOnMiss
    /\ MissingAt(FirstMiss) = "query"
    /\ "Query" \in Contributed(config, DependencyAt(FirstMiss).name)
    /\ \E k1, k2 \in DOMAIN log :
          /\ log[k1] = log[k2]
          /\ Pairs(config.deployment[cur.entry])[k1][2] = "query"
          /\ Pairs(config.deployment[cur.entry])[k2][2] = "Query"

----------------------------------------------------------------------------
(* The claims about what a run call leaves in the caches *)

\* The last method called is run, and the call has ended: the caches are as it left them.
JustRan == op = "run" /\ CallDone

\* C17: a run call that fails in verification leaves the declaration cache, the path cache
\* and the runner registry as they were when it was called.
C17_FailedVerifyKeepsCaches ==
    (JustRan /\ VerifyFailed) =>
        /\ configCache = pre.configCache
        /\ modulePathCache = pre.modulePathCache
        /\ runnerCache = pre.runnerCache

\* A verification that failed on an instance whose three caches were populated, a
\* declaration being missing or a dependency unmet.
C17_Witness ==
    /\ JustRan
    /\ VerifyFailed
    /\ configCache # EmptyMap
    /\ modulePathCache # EmptyMap
    /\ runnerCache # EmptyMap

\* A step that is a run call, from its start to its first await or to its end.
RunCalled == pc = "idle" /\ op' = "run"

----------------------------------------------------------------------------
(* The claims about the entries run does not execute *)

\* The module names entry e references.
ReferencedBy(e) ==
    {RefName(config.deployment[e].modules[j]) : j \in DOMAIN config.deployment[e].modules}

\* C19: a run call with verify = true on a manifest of which some entry, matched or not,
\* references a module that has no declaration fails in verification, and no hook has
\* been invoked.
C19_UndeclaredAnywhereFails ==
    (called /\ call.verify
            /\ \E e \in DOMAIN config.deployment :
                  ~(ReferencedBy(e) \subseteq DOMAIN pre.configCache)) =>
        /\ pc = "idle"
        /\ ~result.ok
        /\ result.at = "verify"
        /\ log = <<>>

\* The call failed on the assertion that the module has a declaration, the entry of the
\* name passed referencing declared modules only and its type having a runner: another
\* entry references the module without declaration.
C19_Witness ==
    /\ JustRan
    /\ VerifyFailed
    /\ call.verify
    /\ result.msg = <<"AssertionError">>
    /\ pre.configCache # EmptyMap
    /\ ~NoEntryNamed(call.name)
    /\ ReferencedBy(FirstNamed(call.name)) # {}
    /\ ReferencedBy(FirstNamed(call.name)) \subseteq DOMAIN pre.configCache
    /\ CallType \in DOMAIN pre.runnerCache
    /\ log = <<>>

\* The entries of the name passed to the last run call.
Named == {e \in DOMAIN config.deployment : config.deployment[e].name = call.name}

\* C20: of the entries that have the name passed to run, only the first in the order of
\* the manifest is executed: every hook invoked is a hook of the runner of that entry's
\* type, every load hook is invoked for a module of that entry and with that entry, the
\* load hooks are no more than that entry's (module, command) pairs, the run hook is
\* invoked once at most; and when that entry's type has no runner no hook is invoked,
\* whatever the later entries of the name.
C20_FirstOfNameOnly ==
    (called /\ Named # {}) =>
        LET e == CHOOSE x \in Named : \A y \in Named : x <= y
            type == config.deployment[e].type
        IN  /\ type \notin DOMAIN pre.runnerCache => log = <<>>
            /\ \A k \in DOMAIN log :
                  /\ log[k].runner = pre.runnerCache[type]
                  /\ IsLoadCall(log[k]) =>
                        /\ log[k].deployment = e
                        /\ \E X \in ReferencedBy(e) :
                              log[k].module[1] = pre.modulePathCache[X]
            /\ Len(LoadCalls) <= Len(Pairs(config.deployment[e]))
            /\ Len(RunCalls) <= 1

\* A run that completed on the first of two entries of the name, the second being of
\* another type that has a runner too and referencing modules of its own.
C20_Witness ==
    /\ JustRan
    /\ result.ok
    /\ Len(RunCalls) = 1
    /\ LoadCalls # <<>>
    /\ Named = {1, 2}
    /\ config.deployment[1].type # config.deployment[2].type
    /\ config.deployment[2].type \in DOMAIN pre.runnerCache
    /\ ~(ReferencedBy(2) \subseteq ReferencedBy(1))

====
